---- MODULE Spec2Model ----
(***************************************************************************)
(* Model of the BespON escape / unescape engine (bespon/escape.py) and of  *)
(* the grammar entries it uses (bespon/grammar.py).                        *)
(*                                                                         *)
(* Text is a sequence of code points (naturals); a Python str of length 1  *)
(* is a sequence of length 1.  A Python dict is a function whose domain is *)
(* its key set.  The outcome of a call is a record: a returned value or a  *)
(* raised exception.                                                       *)
(***************************************************************************)
EXTENDS Integers, Sequences, FiniteSets, TLC

VARIABLES
  unescape_unicode_dict, \* the Unescape instance's _unescape_unicode_dict
  unescape_bytes_dict,   \* the Unescape instance's _unescape_bytes_dict
  escaper,               \* the Escape instance the caller holds, if any
  call,                  \* the call last made, with its arguments
  ret                    \* its outcome

vars == <<unescape_unicode_dict, unescape_bytes_dict, escaper, call, ret>>

(***************************************************************************)
(* Bounds of the model.                                                    *)
(***************************************************************************)
\* longest input text drawn from TextAlphabet
MaxLen == 3
\* an Unescape instance takes further calls while its cache holds fewer
\* than MaxCached lazily added keys
MaxCached == 2
\* longest text handed to the Escape client calls
MaxEscLen == 2

(***************************************************************************)
(* Outcomes of a call.                                                     *)
(***************************************************************************)
Return(v) == [kind |-> "return", v |-> v, exc |-> "", raw |-> <<>>, esc |-> <<>>]

Raise(exc, raw, esc) == [kind |-> "raise", v |-> <<>>, exc |-> exc, raw |-> raw, esc |-> esc]

\* Python None / a supplied value, for optional arguments
None == [some |-> FALSE, v |-> <<>>]

Some(v) == [some |-> TRUE, v |-> v]

\* no call is in progress: the caller holds the instances and is about to
\* make its next call
NoCall == [op |-> "none"]

(***************************************************************************)
(* grammar.py: literal grammar entries and regex atoms used by escape.py.  *)
(***************************************************************************)
\* LIT_GRAMMAR['newline'], escape.py's NEWLINE
NEWLINE == <<10>>

\* LIT_GRAMMAR['space']; RE_GRAMMAR['space'] is re.escape of it
space == <<32>>

\* RE_GRAMMAR['backslash'] matches exactly one backslash
backslash == <<92>>

\* '[0-9a-f]'
lower_hex_digit == (48..57) \cup (97..102)

\* the upper-case class written with the lower-case letters
upper_hex_digit_lower_only == (48..57) \cup (97..102)

\* '[0-9A-F]'
upper_hex_digit == (48..57) \cup (65..70)

\* s[i..i+n-1] exists and every code point of it lies in class
AllIn(s, i, n, class) ==
  /\ i + n - 1 <= Len(s)
  /\ \A j \in i..(i + n - 1) : s[j] \in class

\* '\\<letter>(?:{lower_hex_digit}{n}|{upper_hex_digit}{n})' tried at s[i];
\* the length of the match, 0 when there is none
fixed_escape(s, i, letter, n) ==
  IF /\ i + 1 <= Len(s)
     /\ s[i] = backslash[1]
     /\ s[i + 1] = letter
     /\ (AllIn(s, i + 2, n, lower_hex_digit) \/ AllIn(s, i + 2, n, upper_hex_digit))
  THEN n + 2
  ELSE 0

x_escape(s, i) == fixed_escape(s, i, 120, 2)

u_escape(s, i) == fixed_escape(s, i, 117, 4)

U_escape(s, i) == fixed_escape(s, i, 85, 8)

\* '\\u\{(?:{lower_hex_digit}{1,6}|{upper_hex_digit}{1,6})\}'
ubrace_ok(s, i, n) ==
  /\ i + 3 + n <= Len(s)
  /\ s[i] = backslash[1]
  /\ s[i + 1] = 117
  /\ s[i + 2] = 123
  /\ (AllIn(s, i + 3, n, lower_hex_digit) \/ AllIn(s, i + 3, n, upper_hex_digit))
  /\ s[i + 3 + n] = 125

ubrace_escape(s, i) ==
  IF \E n \in 1..6 : ubrace_ok(s, i, n)
  THEN 4 + (CHOOSE n \in 1..6 : ubrace_ok(s, i, n))
  ELSE 0

\* number of consecutive code points of class starting at s[i] (greedy '*')
RECURSIVE run_length(_, _, _)
run_length(s, i, class) ==
  IF i <= Len(s) /\ s[i] \in class THEN 1 + run_length(s, i + 1, class) ELSE 0

\* the continuation pattern without the '{space}*' part
continuation_escape_no_spaces(s, i) ==
  IF i + 1 <= Len(s) /\ s[i] = backslash[1] /\ s[i + 1] = NEWLINE[1] THEN 2 ELSE 0

\* '\\{space}*{newline}'
continuation_escape(s, i) ==
  IF i <= Len(s) /\ s[i] = backslash[1]
  THEN LET k == run_length(s, i + 1, {space[1]})
       IN IF i + 1 + k <= Len(s) /\ s[i + 1 + k] = NEWLINE[1] THEN k + 2 ELSE 0
  ELSE 0

\* '\\.' : the dot matches any code point but a newline
any_char_escape(s, i) ==
  IF i + 1 <= Len(s) /\ s[i] = backslash[1] /\ s[i + 1] # 10 THEN 2 ELSE 0

\* '\\'
bare_escape(s, i) == IF i <= Len(s) /\ s[i] = backslash[1] THEN 1 ELSE 0

\* first alternative, in the order of the list, that matches (0 when none)
FirstMatch(lens) ==
  IF \E k \in 1..Len(lens) : lens[k] > 0
  THEN lens[CHOOSE k \in 1..Len(lens) : lens[k] > 0 /\ \A j \in 1..(k - 1) : lens[j] = 0]
  ELSE 0

\* RE_GRAMMAR['unicode_escape'] tried at s[i]
unicode_escape(s, i) ==
  FirstMatch(<<x_escape(s, i), u_escape(s, i), U_escape(s, i), ubrace_escape(s, i),
               continuation_escape(s, i), any_char_escape(s, i), bare_escape(s, i)>>)

\* the table with \e given the value of \v
ShortPairs_e_as_v ==
  { <<92, 92>>, <<39, 39>>, <<34, 34>>, <<97, 7>>, <<98, 8>>, <<101, 11>>,
    <<102, 12>>, <<110, 10>>, <<114, 13>>, <<116, 9>>, <<118, 11>> }

\* (escape letter, literal code point) of the eleven short escapes
ShortPairs ==
  { <<92, 92>>, <<39, 39>>, <<34, 34>>, <<97, 7>>, <<98, 8>>, <<101, 27>>,
    <<102, 12>>, <<110, 10>>, <<114, 13>>, <<116, 9>>, <<118, 11>> }

\* two-character escape -> literal character
SHORT_BACKSLASH_UNESCAPES ==
  [tok \in { <<92, p[1]>> : p \in ShortPairs } |->
     << (CHOOSE p \in ShortPairs : p[1] = tok[2])[2] >>]

\* {v: k for k, v in SHORT_BACKSLASH_UNESCAPES.items()}
SHORT_BACKSLASH_ESCAPES ==
  [lit \in { SHORT_BACKSLASH_UNESCAPES[tok] : tok \in DOMAIN SHORT_BACKSLASH_UNESCAPES } |->
     CHOOSE tok \in DOMAIN SHORT_BACKSLASH_UNESCAPES : SHORT_BACKSLASH_UNESCAPES[tok] = lit]

(***************************************************************************)
(* Python built-ins as the code uses them.                                 *)
(***************************************************************************)
\* value of one hexadecimal digit, either case
HexDigitValue(c) ==
  IF c \in 48..57 THEN c - 48
  ELSE IF c \in 97..102 THEN c - 87
  ELSE c - 55

RECURSIVE HexValue(_)
HexValue(ds) ==
  IF ds = <<>> THEN 0
  ELSE 16 * HexValue(SubSeq(ds, 1, Len(ds) - 1)) + HexDigitValue(ds[Len(ds)])

\* str.strip('{}')
RECURSIVE strip_braces(_)
strip_braces(t) ==
  IF t # <<>> /\ t[1] \in {123, 125} THEN strip_braces(Tail(t))
  ELSE IF t # <<>> /\ t[Len(t)] \in {123, 125} THEN strip_braces(SubSeq(t, 1, Len(t) - 1))
  ELSE t

\* int(t, 16) for the strings the scan can pass: an empty string, spaces and
\* a newline, or hex digits.  The value is kept as the part above the last
\* four digits (hi) and the last four digits (lo), so an eight-digit value
\* does not overflow.
int16(t) ==
  IF t = <<>> \/ \E j \in 1..Len(t) : t[j] \notin (lower_hex_digit \cup upper_hex_digit)
  THEN [ok |-> FALSE, hi |-> 0, lo |-> 0]
  ELSE IF Len(t) <= 4
  THEN [ok |-> TRUE, hi |-> 0, lo |-> HexValue(t)]
  ELSE [ok |-> TRUE, hi |-> HexValue(SubSeq(t, 1, Len(t) - 4)),
                     lo |-> HexValue(SubSeq(t, Len(t) - 3, Len(t)))]

\* chr(n): OverflowError above the C int range, ValueError above 0x10FFFF
chr(n) ==
  IF n.hi >= 32768 THEN Raise("OverflowError", <<>>, <<>>)
  ELSE IF n.hi > 16 THEN Raise("ValueError", <<>>, <<>>)
  ELSE Return(<<n.hi * 65536 + n.lo>>)

HexChar(d) == IF d < 10 THEN 48 + d ELSE 87 + d

RECURSIVE HexLower(_)
HexLower(n) == IF n < 16 THEN <<HexChar(n)>> ELSE Append(HexLower(n \div 16), HexChar(n % 16))

RECURSIVE ZeroPad(_, _)
ZeroPad(t, width) == IF Len(t) >= width THEN t ELSE ZeroPad(<<48>> \o t, width)

\* '{0:0<width>x}'.format(n): lower-case hex, zero-padded to at least width
format_x(n, width) == ZeroPad(HexLower(n), width)

(***************************************************************************)
(* escape.py: class Unescape.                                              *)
(***************************************************************************)
\* Unescape._unescape_unicode_char(s)
unescape_unicode_char(s) ==
  LET n == int16(strip_braces(SubSeq(s, 3, Len(s))))
      c == IF n.ok THEN chr(n) ELSE Raise("ValueError", <<>>, <<>>)
      last == s[Len(s)]
  IN IF c.kind = "return" THEN c
     ELSE IF c.exc # "ValueError" THEN c
     ELSE IF <<last>> = NEWLINE THEN Return(<<>>)
     ELSE IF 33 <= last /\ last <= 126 THEN Raise("UnknownEscapeError", s, s)
     ELSE Raise("UnknownEscapeError", s, <<92, 60, 85, 43>> \o format_x(last, 0) \o <<62>>)

\* tooling.keydefaultdict: d[key], computing and storing the value on a miss;
\* a factory that raises stores nothing
keydefaultdict_getitem(d, key) ==
  IF key \in DOMAIN d THEN [r |-> Return(d[key]), d |-> d]
  ELSE LET r == unescape_unicode_char(key)
       IN IF r.kind = "return" THEN [r |-> r, d |-> (key :> r.v) @@ d]
          ELSE [r |-> r, d |-> d]

\* the pattern without the '{newline}|' alternative, whichever is asked for
unescape_unicode_re_escape_only(s, i, replace_newline) == unicode_escape(s, i)

\* the pattern with the '{newline}|' alternative, whichever is asked for
unescape_unicode_re_newline_always(s, i, replace_newline) ==
  IF s[i] = NEWLINE[1] THEN 1 ELSE unicode_escape(s, i)

\* length of the match of the compiled pattern at s[i]:
\* _unescape_unicode_re, or _unescape_unicode_or_replace_newline_re
unescape_unicode_re(s, i, replace_newline) ==
  IF replace_newline /\ s[i] = NEWLINE[1] THEN 1 ELSE unicode_escape(s, i)

\* re.sub(lambda m: d[m.group(0)], s) from position i on, out being the text
\* emitted so far
RECURSIVE re_sub(_, _, _, _, _)
re_sub(s, i, out, d, replace_newline) ==
  IF i > Len(s) THEN [r |-> Return(out), d |-> d]
  ELSE LET n == unescape_unicode_re(s, i, replace_newline)
       IN IF n = 0 THEN re_sub(s, i + 1, Append(out, s[i]), d, replace_newline)
          ELSE LET g == keydefaultdict_getitem(d, SubSeq(s, i, i + n - 1))
               IN IF g.r.kind = "raise" THEN g
                  ELSE re_sub(s, i + n, out \o g.r.v, g.d, replace_newline)

\* a Python bytes object, a str, and the int that indexing a bytes object gives
Bytes(v) == [type |-> "bytes", v |-> v]

Str(v) == [type |-> "str", v |-> v]

ByteItem(n) == [type |-> "int", v |-> n]

\* a == b between such values: objects of different types are never equal
TypedEq(a, b) == a.type = b.type /\ a.v = b.v

\* s.encode('latin1') / s.encode('ascii'): one byte per code point, an error
\* (a ValueError) for a code point the codec does not have
encode(s, codec) ==
  IF \E j \in 1..Len(s) : s[j] > (IF codec = "latin1" THEN 255 ELSE 127)
  THEN Raise("ValueError", <<>>, <<>>)
  ELSE Return(Bytes(s))

\* b.decode('latin1'): one code point per byte
decode_latin1(b) == Str(b.v)

\* RE_GRAMMAR['bytes_escape'] tried at s[i]
bytes_escape(s, i) ==
  FirstMatch(<<x_escape(s, i), continuation_escape(s, i), any_char_escape(s, i),
               bare_escape(s, i)>>)

\* {'\\x{0:02x}'.format(n).encode('ascii'): chr(n).encode('latin1') for n in range(256)}
hex_unescape_bytes ==
  [key \in { encode(<<92, 120>> \o format_x(n, 2), "ascii").v : n \in 0..255 } |->
     encode(<< CHOOSE n \in 0..255 : <<92, 120>> \o format_x(n, 2) = key.v >>, "latin1").v]

\* the entries update(grammar.SHORT_BACKSLASH_UNESCAPES) adds: the table's
\* keys and values as they are, which are str objects
short_unescapes_as_given ==
  [key \in { Str(tok) : tok \in DOMAIN SHORT_BACKSLASH_UNESCAPES } |->
     Str(SHORT_BACKSLASH_UNESCAPES[key.v])]

\* _unescape_bytes_dict as Unescape.__init__ leaves it
new_unescape_bytes_dict == short_unescapes_as_given @@ hex_unescape_bytes

\* keys a cache holds beyond the ones it is constructed with
Added(d) == DOMAIN d \ DOMAIN SHORT_BACKSLASH_UNESCAPES

\* keys the bytes cache holds beyond the ones it is constructed with
AddedBytes(d) == DOMAIN d \ DOMAIN new_unescape_bytes_dict

\* the Unescape instance takes further calls: its two caches together hold
\* fewer than MaxCached lazily added keys
TakesCalls ==
  Cardinality(Added(unescape_unicode_dict)) + Cardinality(AddedBytes(unescape_bytes_dict))
    < MaxCached

\* Unescape.unescape_unicode(s, newline)
unescape_unicode(s, newline) ==
  /\ call = NoCall
  /\ TakesCalls
  /\ LET d == unescape_unicode_dict
         replace == newline.some /\ newline.v # NEWLINE
         d1 == IF replace THEN (NEWLINE :> newline.v) @@ d ELSE d
         res == re_sub(s, 1, <<>>, d1, replace)
     IN /\ unescape_unicode_dict' = res.d
        /\ ret' = res.r
        /\ call' = [op |-> "unescape_unicode", s |-> s, newline |-> newline]
        /\ UNCHANGED <<escaper, unescape_bytes_dict>>

\* Unescape._unescape_byte(b)
unescape_byte(b) ==
  LET n == int16(SubSeq(b.v, 3, Len(b.v)))
      c == IF n.ok THEN chr(n) ELSE Raise("ValueError", <<>>, <<>>)
      v == IF c.kind = "return" THEN encode(c.v, "latin1") ELSE c
      newline == encode(NEWLINE, "latin1").v
      last == b.v[Len(b.v)]
      b_esc == decode_latin1(b)
  IN IF v.kind = "return" THEN v
     ELSE IF v.exc # "ValueError" THEN v
     ELSE IF TypedEq(ByteItem(last), newline) THEN Return(Bytes(<<>>))
     ELSE IF 33 <= last /\ last <= 126 THEN Raise("UnknownEscapeError", b.v, b_esc.v)
     ELSE Raise("UnknownEscapeError", b.v, <<92, 60, 48, 120>> \o format_x(last, 2) \o <<62>>)

\* tooling.keydefaultdict over _unescape_byte: d[key], computing and storing
\* the value on a miss; a factory that raises stores nothing
keydefaultdict_getitem_bytes(d, key) ==
  IF key \in DOMAIN d THEN [r |-> Return(d[key]), d |-> d]
  ELSE LET r == unescape_byte(key)
       IN IF r.kind = "return" THEN [r |-> r, d |-> (key :> r.v) @@ d]
          ELSE [r |-> r, d |-> d]

\* length of the match of the compiled bytes pattern at s[i]:
\* _unescape_bytes_re, or _unescape_bytes_or_replace_newline_re
unescape_bytes_re(s, i, replace_newline) ==
  IF replace_newline /\ s[i] = NEWLINE[1] THEN 1 ELSE bytes_escape(s, i)

\* re.sub(lambda m: d[m.group(0)], b) from position i on; a replacement that
\* is not a bytes object is a TypeError
RECURSIVE re_sub_bytes(_, _, _, _, _)
re_sub_bytes(s, i, out, d, replace_newline) ==
  IF i > Len(s) THEN [r |-> Return(out), d |-> d]
  ELSE LET n == unescape_bytes_re(s, i, replace_newline)
       IN IF n = 0 THEN re_sub_bytes(s, i + 1, Append(out, s[i]), d, replace_newline)
          ELSE LET g == keydefaultdict_getitem_bytes(d, Bytes(SubSeq(s, i, i + n - 1)))
               IN IF g.r.kind = "raise" THEN g
                  ELSE IF g.r.v.type # "bytes"
                  THEN [r |-> Raise("TypeError", <<>>, <<>>), d |-> g.d]
                  ELSE re_sub_bytes(s, i + n, out \o g.r.v.v, g.d, replace_newline)

\* Unescape.unescape_bytes(b, newline); b and the result are the byte values
unescape_bytes(b, newline) ==
  /\ call = NoCall
  /\ TakesCalls
  /\ LET d == unescape_bytes_dict
         default_newline == encode(NEWLINE, "latin1").v
         replace == newline.some /\ ~ TypedEq(Bytes(newline.v), default_newline)
         d1 == IF replace THEN (default_newline :> Bytes(newline.v)) @@ d ELSE d
         res == re_sub_bytes(b, 1, <<>>, d1, replace)
     IN /\ unescape_bytes_dict' = res.d
        /\ ret' = res.r
        /\ call' = [op |-> "unescape_bytes", s |-> b, newline |-> newline]
        /\ UNCHANGED <<escaper, unescape_unicode_dict>>

\* Unescape(): a new instance, its caches as the constructor fills them
Unescape__init__ ==
  /\ call = NoCall
  /\ unescape_unicode_dict' = SHORT_BACKSLASH_UNESCAPES
  /\ unescape_bytes_dict' = new_unescape_bytes_dict
  /\ call' = [op |-> "Unescape"]
  /\ ret' = Return(<<>>)
  /\ UNCHANGED escaper

(***************************************************************************)
(* escape.py: class Escape.                                                *)
(***************************************************************************)
\* Python values passed as constructor flags
PyBool(b) == [type |-> "bool", n |-> IF b THEN 1 ELSE 0]

PyInt(n) == [type |-> "int", n |-> n]

PyNone == [type |-> "NoneType", n |-> 0]

\* a == b: bool and int compare by value, None equals None only
PyEq(a, b) ==
  IF a.type = "NoneType" \/ b.type = "NoneType" THEN a.type = b.type ELSE a.n = b.n

\* truth value of v in a condition
Truthy(v) == v.type # "NoneType" /\ v.n # 0

\* the caller holds no Escape instance
NoInstance == [exists |-> FALSE]

\* the code points the format forbids verbatim in the full range: control
\* characters other than tab and newline, and surrogates
NOT_VALID_LITERAL(c) ==
  c \in (0..8) \cup (11..31) \cup (127..159) \cup (55296..57343)

\* the same when only ASCII may appear verbatim
NOT_VALID_LITERAL_ASCII(c) == c \notin {9, 10} \cup (32..126)

\* Escape._escape_unicode_char_xubrace
escape_unicode_char_xubrace(n) ==
  IF n < 256 THEN <<92, 120>> \o format_x(n, 2)
  ELSE <<92, 117, 123>> \o format_x(n, 0) \o <<125>>

\* Escape._escape_unicode_char_xuU
escape_unicode_char_xuU(n) ==
  IF n < 256 THEN <<92, 120>> \o format_x(n, 2)
  ELSE IF n < 65536 THEN <<92, 117>> \o format_x(n, 4)
  ELSE <<92, 85>> \o format_x(n, 8)

\* Escape._escape_unicode_char_ubrace
escape_unicode_char_ubrace(n) == <<92, 117, 123>> \o format_x(n, 0) \o <<125>>

\* Escape._escape_unicode_char_uU
escape_unicode_char_uU(n) ==
  IF n < 65536 THEN <<92, 117>> \o format_x(n, 4) ELSE <<92, 85>> \o format_x(n, 8)

EscapeFunctions == {"xubrace", "xuU", "ubrace", "uU"}

\* the static method of that name applied to the character of code point n
escape_unicode_char(name, n) ==
  CASE name = "xubrace" -> escape_unicode_char_xubrace(n)
    [] name = "xuU" -> escape_unicode_char_xuU(n)
    [] name = "ubrace" -> escape_unicode_char_ubrace(n)
    [] name = "uU" -> escape_unicode_char_uU(n)

\* {k.encode('ascii'): v.encode('ascii') for k, v in SHORT_BACKSLASH_ESCAPES}:
\* iterating the dict yields its keys, and each key, a string, is unpacked
\* into k and v, which takes a key of exactly two characters
short_escapes_as_bytes ==
  IF \E key \in DOMAIN SHORT_BACKSLASH_ESCAPES : Len(key) # 2
  THEN [r |-> Raise("ValueError", <<>>, <<>>), d |-> <<>>]
  ELSE [r |-> Return(<<>>),
        d |-> [k \in { <<key[1]>> : key \in DOMAIN SHORT_BACKSLASH_ESCAPES } |->
                 << (CHOOSE key \in DOMAIN SHORT_BACKSLASH_ESCAPES : key[1] = k[1])[2] >>]]

\* Escape.__init__(only_ascii, brace_escapes, x_escapes)
Escape__init__(only_ascii, brace_escapes, x_escapes) ==
  IF ~ \A opt \in {only_ascii, brace_escapes, x_escapes} :
         PyEq(opt, PyBool(TRUE)) \/ PyEq(opt, PyBool(FALSE))
  THEN [r |-> Raise("TypeError", <<>>, <<>>), self |-> NoInstance]
  ELSE IF short_escapes_as_bytes.r.kind = "raise"
  THEN [r |-> short_escapes_as_bytes.r, self |-> NoInstance]
  ELSE [r |-> Return(<<>>),
        self |-> [exists |-> TRUE,
                  only_ascii |-> only_ascii,
                  brace_escapes |-> brace_escapes,
                  x_escapes |-> x_escapes,
                  escape_unicode_char |->
                    IF Truthy(x_escapes) /\ Truthy(brace_escapes) THEN "xubrace"
                    ELSE IF Truthy(x_escapes) THEN "xuU"
                    ELSE IF Truthy(brace_escapes) THEN "ubrace"
                    ELSE "uU",
                  escape_unicode_dict |-> SHORT_BACKSLASH_ESCAPES,
                  escape_bytes_dict |->
                    short_escapes_as_bytes.d
                      @@ [b \in { <<n>> : n \in 0..255 } |-> <<92, 120>> \o format_x(b[1], 2)]]]

\* the compiled pattern of escape_unicode matches the character of code point c
invalid_literal_or_backslash_re(self, c, delim, inline) ==
  \/ c = backslash[1]
  \/ <<c>> = delim
  \/ inline /\ <<c>> = NEWLINE
  \/ IF Truthy(self.only_ascii) THEN NOT_VALID_LITERAL_ASCII(c) ELSE NOT_VALID_LITERAL(c)

\* the join over s, or r.sub over s, from position i on; d is the instance's
\* _escape_unicode_dict, filled on each miss
RECURSIVE escape_sub(_, _, _, _, _, _, _, _)
escape_sub(self, s, i, out, d, delim, all, inline) ==
  IF i > Len(s) THEN [r |-> Return(out), self |-> [self EXCEPT !.escape_unicode_dict = d]]
  ELSE IF all \/ invalid_literal_or_backslash_re(self, s[i], delim, inline)
  THEN LET v == IF <<s[i]>> \in DOMAIN d THEN d[<<s[i]>>]
                ELSE escape_unicode_char(self.escape_unicode_char, s[i])
       IN escape_sub(self, s, i + 1, out \o v, (<<s[i]>> :> v) @@ d, delim, all, inline)
  ELSE escape_sub(self, s, i + 1, Append(out, s[i]), d, delim, all, inline)

\* Escape.escape_unicode(s, delim, all, inline)
escape_unicode(self, s, delim, all, inline) ==
  IF delim # <<39>> /\ delim # <<34>>
  THEN [r |-> Raise("TypeError", <<>>, <<>>), self |-> self]
  ELSE escape_sub(self, s, 1, <<>>, self.escape_unicode_dict, delim, all, inline)

\* the caller's Escape(only_ascii, brace_escapes, x_escapes)
Escape(only_ascii, brace_escapes, x_escapes) ==
  /\ call = NoCall
  /\ LET new == Escape__init__(only_ascii, brace_escapes, x_escapes)
     IN /\ escaper' = IF new.r.kind = "return" THEN new.self ELSE escaper
        /\ ret' = new.r
        /\ call' = [op |-> "Escape", only_ascii |-> only_ascii,
                    brace_escapes |-> brace_escapes, x_escapes |-> x_escapes]
  /\ UNCHANGED <<unescape_unicode_dict, unescape_bytes_dict>>

\* the caller's Escape(...).escape_unicode(s, delim, all, inline)
Escape_escape_unicode(only_ascii, brace_escapes, x_escapes, s, delim, all, inline) ==
  /\ call = NoCall
  /\ LET new == Escape__init__(only_ascii, brace_escapes, x_escapes)
         res == escape_unicode(new.self, s, delim, all, inline)
     IN IF new.r.kind = "raise"
        THEN ret' = new.r /\ UNCHANGED escaper
        ELSE ret' = res.r /\ escaper' = res.self
  /\ call' = [op |-> "escape_unicode", only_ascii |-> only_ascii,
              brace_escapes |-> brace_escapes, x_escapes |-> x_escapes,
              s |-> s, delim |-> delim, all |-> all, inline |-> inline]
  /\ UNCHANGED <<unescape_unicode_dict, unescape_bytes_dict>>

\* the caller's e = Escape(...); t = e.escape_unicode(s, delim, False, inline);
\* e.escape_unicode(t, delim, False, inline): the outcome is the pair of texts
Escape_escape_unicode_twice(only_ascii, brace_escapes, x_escapes, s, delim, inline) ==
  /\ call = NoCall
  /\ LET new == Escape__init__(only_ascii, brace_escapes, x_escapes)
         first == escape_unicode(new.self, s, delim, FALSE, inline)
         second == escape_unicode(first.self, first.r.v, delim, FALSE, inline)
     IN IF new.r.kind = "raise"
        THEN ret' = new.r /\ UNCHANGED escaper
        ELSE IF first.r.kind = "raise"
        THEN ret' = first.r /\ escaper' = first.self
        ELSE IF second.r.kind = "raise"
        THEN ret' = second.r /\ escaper' = second.self
        ELSE ret' = Return(<<first.r.v, second.r.v>>) /\ escaper' = second.self
  /\ call' = [op |-> "escape_unicode_twice", only_ascii |-> only_ascii,
              brace_escapes |-> brace_escapes, x_escapes |-> x_escapes,
              s |-> s, delim |-> delim, all |-> FALSE, inline |-> inline]
  /\ UNCHANGED <<unescape_unicode_dict, unescape_bytes_dict>>

\* the caller's unescape_unicode(Escape(...).escape_unicode(s, delim, all, inline))
\* on the Unescape instance it holds, with no newline override
round_trip(only_ascii, brace_escapes, x_escapes, s, delim, all, inline) ==
  /\ call = NoCall
  /\ LET new == Escape__init__(only_ascii, brace_escapes, x_escapes)
         res == escape_unicode(new.self, s, delim, all, inline)
         back == re_sub(res.r.v, 1, <<>>, unescape_unicode_dict, FALSE)
     IN IF new.r.kind = "raise"
        THEN ret' = new.r /\ UNCHANGED <<escaper, unescape_unicode_dict>>
        ELSE IF res.r.kind = "raise"
        THEN ret' = res.r /\ escaper' = res.self /\ UNCHANGED unescape_unicode_dict
        ELSE ret' = back.r /\ escaper' = res.self /\ unescape_unicode_dict' = back.d
  /\ call' = [op |-> "round_trip", only_ascii |-> only_ascii,
              brace_escapes |-> brace_escapes, x_escapes |-> x_escapes,
              s |-> s, delim |-> delim, all |-> all, inline |-> inline]
  /\ UNCHANGED unescape_bytes_dict

\* the caller's Escape._escape_unicode_char_<name>(c), a static method
Escape_escape_unicode_char(name, n) ==
  /\ call = NoCall
  /\ ret' = Return(escape_unicode_char(name, n))
  /\ call' = [op |-> "escape_unicode_char", name |-> name, n |-> n]
  /\ UNCHANGED <<unescape_unicode_dict, unescape_bytes_dict, escaper>>

(***************************************************************************)
(* grammar.py: the two grammar tables and the loop that builds them.       *)
(***************************************************************************)
\* _RAW_LIT_GRAMMAR as first written: whitespace and the byte order mark.  A
\* template is a sequence of symbols: a brace, the field name between a pair
\* of braces, or a piece of other text (here one character each; a character
\* a string cannot show is written U+XXXX).
RAW_LIT_WHITESPACE ==
  << <<"tab", <<"\t">>>>,
     <<"space", <<" ">>>>,
     <<"indent", <<"{", "tab", "}", "{", "space", "}">>>>,
     <<"newline", <<"\n">>>>,
     <<"line_terminator_ascii", <<"\n", "U+000B", "\f", "\r">>>>,
     <<"line_terminator_unicode", <<"{", "line_terminator_ascii", "}", "U+0085", "U+2028",
        "U+2029">>>>,
     <<"whitespace", <<"{", "indent", "}", "{", "newline", "}">>>>,
     <<"unicode_whitespace", <<"\t", "\n", "U+000B", "\f", "\r", " ", "U+0085", "U+00A0",
        "U+1680", "U+2000", "U+2001", "U+2002", "U+2003", "U+2004", "U+2005", "U+2006",
        "U+2007", "U+2008", "U+2009", "U+200A", "U+2028", "U+2029", "U+202F", "U+205F",
        "U+3000">>>>,
     <<"bom", <<"U+FEFF">>>> >>

\* _RAW_LIT_SPECIAL
RAW_LIT_SPECIAL ==
  << <<"comment_delim", <<"#">>>>,
     <<"assign_key_val", <<"=">>>>,
     <<"open_noninline_list", <<"*">>>>,
     <<"start_inline_dict", <<"{">>>>,
     <<"end_inline_dict", <<"}">>>>,
     <<"start_inline_list", <<"[">>>>,
     <<"end_inline_list", <<"]">>>>,
     <<"start_tag", <<"(">>>>,
     <<"end_tag", <<")">>>>,
     <<"end_tag_suffix", <<">">>>>,
     <<"inline_element_separator", <<",">>>>,
     <<"block_prefix", <<"|">>>>,
     <<"block_suffix", <<"/">>>>,
     <<"escaped_string_singlequote_delim", <<"'">>>>,
     <<"escaped_string_doublequote_delim", <<"\"">>>>,
     <<"literal_string_delim", <<"U+0060">>>>,
     <<"path_separator", <<".">>>>,
     <<"alias_prefix", <<"$">>>>,
     <<"home_alias", <<"~">>>>,
     <<"self_alias", <<"_">>>>,
     <<"end_tag_with_suffix", <<"{", "end_tag", "}", "{", "end_tag_suffix", "}">>>>,
     <<"doc_comment_invalid_next_token", <<"{", "block_prefix", "}", "{", "comment_delim", "}",
        "{", "assign_key_val", "}", "{", "end_inline_dict", "}", "{", "end_inline_list", "}",
        "{", "end_tag", "}", "{", "inline_element_separator", "}">>>>,
     <<"tag_invalid_next_token", <<"{", "comment_delim", "}", "{", "assign_key_val", "}", "{",
        "end_inline_dict", "}", "{", "end_inline_list", "}", "{", "end_tag", "}", "{",
        "inline_element_separator", "}">>>>,
     <<"number_or_number_unit_start", <<"0", "1", "2", "3", "4", "5", "6", "7", "8", "9", "+",
        "-">>>> >>


\* the list after _RAW_LIT_GRAMMAR.extend(_RAW_LIT_SPECIAL)
RAW_LIT_GRAMMAR == RAW_LIT_WHITESPACE \o RAW_LIT_SPECIAL

\* the lookup that leaves a field it does not know in place
format_field_kept(kwargs, field) ==
  IF field \in DOMAIN kwargs THEN Return(kwargs[field]) ELSE Return(<<"{", field, "}">>)

\* the field named between a pair of braces, looked up in the keyword
\* arguments of str.format; a number is a positional index, and there are no
\* positional arguments
format_field(kwargs, field) ==
  IF field \in DOMAIN kwargs THEN Return(kwargs[field])
  ELSE IF field \in {"0", "1", "2", "3", "4", "5", "6", "7", "8", "9"}
  THEN Raise("IndexError", <<field>>, <<>>)
  ELSE Raise("KeyError", <<field>>, <<>>)

\* v.format(**kwargs) from symbol i of template v on: a doubled brace gives
\* one brace, '{field}' gives the value of the field, a brace on its own is
\* an error
RECURSIVE format(_, _, _, _)
format(v, i, out, kwargs) ==
  IF i > Len(v) THEN Return(out)
  ELSE IF v[i] = "{"
  THEN IF i + 1 <= Len(v) /\ v[i + 1] = "{" THEN format(v, i + 2, Append(out, "{"), kwargs)
       ELSE IF i + 1 <= Len(v) /\ v[i + 1] = "}" THEN Raise("IndexError", <<>>, <<>>)
       ELSE IF i + 2 <= Len(v) /\ v[i + 2] = "}"
       THEN LET f == format_field(kwargs, v[i + 1])
            IN IF f.kind = "raise" THEN f ELSE format(v, i + 3, out \o f.v, kwargs)
       ELSE Raise("ValueError", <<>>, <<>>)
  ELSE IF v[i] = "}"
  THEN IF i + 1 <= Len(v) /\ v[i + 1] = "}" THEN format(v, i + 2, Append(out, "}"), kwargs)
       ELSE Raise("ValueError", <<>>, <<>>)
  ELSE format(v, i + 1, Append(out, v[i]), kwargs)

\* one turn of the loop, for the atom (k, v): table[k] = v if k is in
\* not_formatted, else table[k] = v.format(**table)
build_atom(k, v, table, not_formatted) ==
  IF k \in not_formatted THEN Return((k :> v) @@ table)
  ELSE LET f == format(v, 1, <<>>, table)
       IN IF f.kind = "raise" THEN f ELSE Return((k :> f.v) @@ table)

\* for k, v in atoms: ..., over the atoms lo..hi in their order, table being
\* the dict so far; the turns of the first half come before those of the
\* second, and an error ends the loop
RECURSIVE build(_, _, _, _, _)
build(atoms, lo, hi, table, not_formatted) ==
  IF lo > hi THEN Return(table)
  ELSE IF lo = hi THEN build_atom(atoms[lo][1], atoms[lo][2], table, not_formatted)
  ELSE LET mid == (lo + hi) \div 2
           first == build(atoms, lo, mid, table, not_formatted)
       IN IF first.kind = "raise" THEN first
          ELSE build(atoms, mid + 1, hi, first.v, not_formatted)

\* the keys LIT_GRAMMAR takes as they are
lit_key_not_formatted == {"start_inline_dict", "end_inline_dict"}

\* LIT_GRAMMAR after the loop
LIT_GRAMMAR == build(RAW_LIT_GRAMMAR, 1, Len(RAW_LIT_GRAMMAR), <<>>, lit_key_not_formatted).v

\* the characters re.escape puts a backslash before (Python 3.7 and later)
special_chars ==
  { "(", ")", "[", "]", "{", "}", "?", "*", "+", "-", "|", "^", "$", "\\", ".", "&", "~",
    "#", " ", "\t", "\n", "\r", "U+000B", "\f" }

\* re.escape(v), v being one character per symbol
RECURSIVE re_escape(_)
re_escape(v) ==
  IF v = <<>> THEN <<>>
  ELSE (IF v[1] \in special_chars THEN <<"\\", v[1]>> ELSE <<v[1]>>) \o re_escape(Tail(v))

\* the pattern text the module re_patterns supplies under a name, kept as one
\* piece of text without braces
re_patterns(name) == <<name>>

\* _RE_PATTERNS
RE_PATTERNS ==
  << <<"xid_start_ascii", re_patterns("re_patterns.XID_START_ASCII")>>,
     <<"xid_start_below_u0590", re_patterns("re_patterns.XID_START_BELOW_U0590")>>,
     <<"xid_start_less_fillers", re_patterns("re_patterns.XID_START_LESS_FILLERS")>>,
     <<"xid_continue_ascii", re_patterns("re_patterns.XID_CONTINUE_ASCII")>>,
     <<"xid_continue_below_u0590", re_patterns("re_patterns.XID_CONTINUE_BELOW_U0590")>>,
     <<"xid_continue_less_fillers", re_patterns("re_patterns.XID_CONTINUE_LESS_FILLERS")>>,
     <<"not_valid_ascii", re_patterns("re_patterns.NOT_VALID_LITERAL_ASCII")>>,
     <<"not_valid_below_u0590", re_patterns("re_patterns.NOT_VALID_LITERAL_BELOW_U0590")>>,
     <<"not_valid_unicode", re_patterns("re_patterns.NOT_VALID_LITERAL")>>,
     <<"bidi_rtl", re_patterns("re_patterns.BIDI_R_AL")>>,
     <<"private_use", re_patterns("re_patterns.PRIVATE_USE")>> >>

\* _RAW_RE_WS
RAW_RE_WS ==
  << <<"space", re_escape(LIT_GRAMMAR["space"])>>,
     <<"indent", <<"[">> \o re_escape(LIT_GRAMMAR["indent"]) \o <<"]">> >>,
     <<"newline", re_escape(LIT_GRAMMAR["newline"])>>,
     <<"whitespace", <<"[">> \o re_escape(LIT_GRAMMAR["whitespace"]) \o <<"]">> >> >>

\* for k, v in _RAW_LIT_SPECIAL: (k, re.escape(LIT_GRAMMAR[k]))
RAW_RE_SPECIAL ==
  [j \in 1..Len(RAW_LIT_SPECIAL) |->
     <<RAW_LIT_SPECIAL[j][1], re_escape(LIT_GRAMMAR[RAW_LIT_SPECIAL[j][1]])>>]

\* _RAW_RE_TYPE, each template after its own .replace calls; a piece of text
\* without braces is one symbol
RAW_RE_TYPE ==
  << <<"none_type", <<"none">>>>,
     <<"none_type_invalid_word", <<"[nN][oO][nN][eE]">>>>,
     <<"bool_true", <<"true">>>>,
     <<"bool_false", <<"false">>>>,
     <<"bool_invalid_word", <<"[tT][rR][uU][eE]|[fF][aA][lL][sS][eE]">>>>,
     <<"sign", <<"[+-]">>>>,
     <<"opt_sign_indent", <<"(?:", "{", "sign", "}", "{", "indent", "}", "*)?">>>>,
     <<"zero", <<"0">>>>,
     <<"nonzero_dec_digit", <<"[1-9]">>>>,
     <<"dec_digit", <<"[0-9]">>>>,
     <<"dec_digits_underscores", <<"{", "dec_digit", "}", "+(?:_", "{", "dec_digit", "}",
        "+)*">>>>,
     <<"lower_hex_digit", <<"[0-9a-f]">>>>,
     <<"lower_hex_digits_underscores", <<"{", "lower_hex_digit", "}", "+(?:_", "{",
        "lower_hex_digit", "}", "+)*">>>>,
     <<"upper_hex_digit", <<"[0-9A-F]">>>>,
     <<"upper_hex_digits_underscores", <<"{", "upper_hex_digit", "}", "+(?:_", "{",
        "upper_hex_digit", "}", "+)*">>>>,
     <<"oct_digit", <<"[0-7]">>>>,
     <<"oct_digits_underscores", <<"{", "oct_digit", "}", "+(?:_", "{", "oct_digit", "}",
        "+)*">>>>,
     <<"bin_digit", <<"[01]">>>>,
     <<"bin_digits_underscores", <<"{", "bin_digit", "}", "+(?:_", "{", "bin_digit", "}",
        "+)*">>>>,
     <<"dec_integer", <<"{", "opt_sign_indent", "}", "(?:", "{", "zero", "}", "|", "{",
        "nonzero_dec_digit", "}", "{", "dec_digit", "}", "*(?:_", "{", "dec_digit", "}",
        "+)*)">>>>,
     <<"hex_integer", <<"{", "opt_sign_indent", "}", "0x_?(?:", "{",
        "lower_hex_digits_underscores", "}", "|", "{", "upper_hex_digits_underscores", "}",
        ")">>>>,
     <<"oct_integer", <<"{", "opt_sign_indent", "}", "0o_?", "{", "oct_digits_underscores",
        "}">>>>,
     <<"bin_integer", <<"{", "opt_sign_indent", "}", "0b_?", "{", "bin_digits_underscores",
        "}">>>>,
     <<"integer", <<"{", "dec_integer", "}", "|", "{", "hex_integer", "}", "|", "{",
        "oct_integer", "}", "|", "{", "bin_integer", "}">>>>,
     <<"dec_exponent", <<"[eE]", "{", "sign", "}", "?", "{", "dec_digits_underscores", "}">>>>,
     <<"decimal_point", <<"\\.">>>>,
     <<"dec_float", <<"{", "opt_sign_indent", "}", "(?:", "{", "zero", "}", "|", "{",
        "nonzero_dec_digit", "}", "{", "dec_digit", "}", "*(?:_", "{", "dec_digit", "}",
        "+)*)(?:", "{", "decimal_point", "}", "{", "dec_digits_underscores", "}", "(?:_?", "{",
        "dec_exponent", "}", ")?|_?", "{", "dec_exponent", "}", ")">>>>,
     <<"hex_exponent", <<"[pP]", "{", "sign", "}", "?", "{", "dec_digits_underscores", "}">>>>,
     <<"hex_float", <<"{", "opt_sign_indent", "}", "0x_?(?:", "{",
        "lower_hex_digits_underscores", "}", "(?:", "{", "decimal_point", "}", "{",
        "lower_hex_digits_underscores", "}", "(?:_?", "{", "hex_exponent", "}", ")?|_?", "{",
        "hex_exponent", "}", ")|", "{", "upper_hex_digits_underscores", "}", "(?:", "{",
        "decimal_point", "}", "{", "upper_hex_digits_underscores", "}", "(?:_?", "{",
        "hex_exponent", "}", ")?|_?", "{", "hex_exponent", "}", "))">>>>,
     <<"infinity", <<"{", "opt_sign_indent", "}", "inf">>>>,
     <<"not_a_number", <<"{", "opt_sign_indent", "}", "nan">>>>,
     <<"float_invalid_word", <<"{", "opt_sign_indent", "}", "(?:[iI][nN][fF]|[nN][aA][nN])">>>>,
     <<"float", <<"{", "dec_float", "}", "|", "{", "hex_float", "}", "|", "{", "infinity", "}",
        "|", "{", "not_a_number", "}">>>>,
     <<"unquoted_start_ascii", <<"{", "xid_start_ascii", "}">>>>,
     <<"unquoted_start_below_u0590", <<"{", "xid_start_below_u0590", "}">>>>,
     <<"unquoted_start_unicode", <<"{", "xid_start_less_fillers", "}">>>>,
     <<"unquoted_continue_ascii", <<"{", "xid_continue_ascii", "}">>>>,
     <<"unquoted_continue_below_u0590", <<"{", "xid_continue_below_u0590", "}">>>>,
     <<"unquoted_continue_unicode", <<"{", "xid_continue_less_fillers", "}">>>>,
     <<"unquoted_key_ascii", <<"_*", "{", "unquoted_start_ascii", "}", "{",
        "unquoted_continue_ascii", "}", "*">>>>,
     <<"unquoted_key_below_u0590", <<"_*", "{", "unquoted_start_below_u0590", "}", "{",
        "unquoted_continue_below_u0590", "}", "*">>>>,
     <<"unquoted_key_unicode", <<"_*", "{", "unquoted_start_unicode", "}", "{",
        "unquoted_continue_unicode", "}", "*">>>>,
     <<"unquoted_string_ascii", <<"{", "unquoted_key_ascii", "}", "(?:", "{", "space", "}",
        "{", "unquoted_continue_ascii", "}", "+)+">>>>,
     <<"unquoted_string_below_u0590", <<"{", "unquoted_key_below_u0590", "}", "(?:", "{",
        "space", "}", "{", "unquoted_continue_below_u0590", "}", "+)+">>>>,
     <<"unquoted_string_unicode", <<"{", "unquoted_key_unicode", "}", "(?:", "{", "space", "}",
        "{", "unquoted_continue_unicode", "}", "+)+">>>>,
     <<"si_mu_prefix", <<"(?:U+00B5|U+03BC)">>>>,
     <<"unquoted_unit_ascii",
        <<"(?:[A-NP-WY-Za-km-wy-z][A-Za-z]+|[Xx][G-Zg-z][A-Za-z]*|[AC-DF-HJ-NP-WY-Zac-df-hj-km-np-rw-z]|%)">>>>,
     <<"unquoted_dec_number_unit_ascii", <<"(?:", "{", "dec_integer", "}", "|", "{",
        "dec_float", "}", ")", "{", "unquoted_unit_ascii", "}">>>>,
     <<"unquoted_dec_number_unit_below_u0590", <<"(?:", "{", "dec_integer", "}", "|", "{",
        "dec_float", "}", ")", "{", "si_mu_prefix", "}", "?", "{", "unquoted_unit_ascii",
        "}">>>>,
     <<"unquoted_dec_number_unit_unicode", <<"{", "unquoted_dec_number_unit_below_u0590",
        "}">>>>,
     <<"key_path_element_ascii", <<"(?:", "{", "unquoted_key_ascii", "}", "|", "{",
        "open_noninline_list", "}", ")">>>>,
     <<"key_path_element_below_u0590", <<"(?:", "{", "unquoted_key_below_u0590", "}", "|", "{",
        "open_noninline_list", "}", ")">>>>,
     <<"key_path_element_unicode", <<"(?:", "{", "unquoted_key_unicode", "}", "|", "{",
        "open_noninline_list", "}", ")">>>>,
     <<"key_path_ascii", <<"{", "key_path_element_ascii", "}", "(?:", "{", "path_separator",
        "}", "{", "key_path_element_ascii", "}", ")+">>>>,
     <<"key_path_below_u0590", <<"{", "key_path_element_below_u0590", "}", "(?:", "{",
        "path_separator", "}", "{", "key_path_element_below_u0590", "}", ")+">>>>,
     <<"key_path_unicode", <<"{", "key_path_element_unicode", "}", "(?:", "{",
        "path_separator", "}", "{", "key_path_element_unicode", "}", ")+">>>>,
     <<"alias_path_ascii", <<"{", "alias_prefix", "}", "(?:", "{", "home_alias", "}", "|", "{",
        "self_alias", "}", "|", "{", "unquoted_key_ascii", "}", ")(?:", "{", "path_separator",
        "}", "{", "unquoted_key_ascii", "}", ")+">>>>,
     <<"alias_path_below_u0590", <<"{", "alias_prefix", "}", "(?:", "{", "home_alias", "}",
        "|", "{", "self_alias", "}", "|", "{", "unquoted_key_below_u0590", "}", ")(?:", "{",
        "path_separator", "}", "{", "unquoted_key_below_u0590", "}", ")+">>>>,
     <<"alias_path_unicode", <<"{", "alias_prefix", "}", "(?:", "{", "home_alias", "}", "|",
        "{", "self_alias", "}", "|", "{", "unquoted_key_unicode", "}", ")(?:", "{",
        "path_separator", "}", "{", "unquoted_key_unicode", "}", ")+">>>>,
     <<"base16", <<"{", "lower_hex_digit", "}", "+|", "{", "upper_hex_digit", "}", "+">>>>,
     <<"base64", <<"[A-Za-z0-9+/=]+">>>> >>

\* _RAW_RE_ESC
RAW_RE_ESC ==
  << <<"x_escape", <<"\\\\x(?:", "{", "lower_hex_digit", "}", "{", "{", "2", "}", "}", "|",
        "{", "upper_hex_digit", "}", "{", "{", "2", "}", "}", ")">>>>,
     <<"u_escape", <<"\\\\u(?:", "{", "lower_hex_digit", "}", "{", "{", "4", "}", "}", "|",
        "{", "upper_hex_digit", "}", "{", "{", "4", "}", "}", ")">>>>,
     <<"U_escape", <<"\\\\U(?:", "{", "lower_hex_digit", "}", "{", "{", "8", "}", "}", "|",
        "{", "upper_hex_digit", "}", "{", "{", "8", "}", "}", ")">>>>,
     <<"ubrace_escape", <<"\\\\u\\", "{", "{", "(?:", "{", "lower_hex_digit", "}", "{", "{",
        "1,6", "}", "}", "|", "{", "upper_hex_digit", "}", "{", "{", "1,6", "}", "}", ")\\",
        "}", "}">>>>,
     <<"bytes_escape", <<"{", "x_escape", "}", "|\\\\", "{", "space", "}", "*", "{", "newline",
        "}", "|\\\\.|\\\\">>>>,
     <<"unicode_escape", <<"{", "x_escape", "}", "|", "{", "u_escape", "}", "|", "{",
        "U_escape", "}", "|", "{", "ubrace_escape", "}", "|\\\\", "{", "space", "}", "*", "{",
        "newline", "}", "|\\\\.|\\\\">>>> >>

\* _RAW_RE_GRAMMAR after its extend and append calls
RAW_RE_GRAMMAR ==
  << <<"backslash", <<"\\\\">> >> >>
    \o RE_PATTERNS \o RAW_RE_WS \o RAW_RE_SPECIAL \o RAW_RE_TYPE \o RAW_RE_ESC

\* _raw_key_not_formatted
raw_key_not_formatted ==
  { RAW_LIT_SPECIAL[j][1] : j \in 1..Len(RAW_LIT_SPECIAL) }
    \cup { RE_PATTERNS[j][1] : j \in 1..Len(RE_PATTERNS) }

\* the loop run over a list of atoms to fill the table of that name
build_table(name, atoms, not_formatted) ==
  /\ call = NoCall
  /\ call' = [op |-> "build", table |-> name, atoms |-> atoms, not_formatted |-> not_formatted]
  /\ ret' = build(atoms, 1, Len(atoms), <<>>, not_formatted)
  /\ UNCHANGED <<unescape_unicode_dict, unescape_bytes_dict, escaper>>

\* LIT_GRAMMAR = {}; for k, v in _RAW_LIT_GRAMMAR: ...
build_LIT_GRAMMAR == build_table("LIT_GRAMMAR", RAW_LIT_GRAMMAR, lit_key_not_formatted)

\* RE_GRAMMAR = {}; for k, v in _RAW_RE_GRAMMAR: ...
build_RE_GRAMMAR == build_table("RE_GRAMMAR", RAW_RE_GRAMMAR, raw_key_not_formatted)

(***************************************************************************)
(* Inputs.                                                                 *)
(***************************************************************************)
\* backslash, space, tab, newline, BEL, 'q'
TextAlphabet == {92, 32, 9, 10, 7, 113}

SeqsUpTo(alphabet, n) == UNION { [1..k -> alphabet] : k \in 0..n }

Texts == SeqsUpTo(TextAlphabet, MaxLen)

\* newline overrides: none, the default newline, CR LF, CR
Overrides == {None, Some(NEWLINE), Some(<<13, 10>>), Some(<<13>>)}

\* backslash, 'n', newline, space: texts with the escape \n next to literal
\* newlines and line continuations
NewlineAlphabet == {92, 110, 10, 32}

NewlineTexts == SeqsUpTo(NewlineAlphabet, MaxLen)

\* the last two digits of a numeric escape: "41", "ab", "AB", "aB", "Ab",
\* "1b", "1B"
DigitPairs ==
  { <<52, 49>>, <<97, 98>>, <<65, 66>>, <<97, 66>>, <<65, 98>>, <<49, 98>>, <<49, 66>> }

\* the digits before them, by form: "" for \x; "00", "d8" for \u;
\* "000000", "0010ff", "001100", "7fffff", "FFFFFF" for \U;
\* "", "0", "10ff", "1100", "00000" for \u{}
DigitPrefixes(form) ==
  CASE form = "x" -> { <<>> }
    [] form = "u" -> { <<48, 48>>, <<100, 56>> }
    [] form = "U" -> { <<48, 48, 48, 48, 48, 48>>, <<48, 48, 49, 48, 102, 102>>,
                       <<48, 48, 49, 49, 48, 48>>, <<55, 102, 102, 102, 102, 102>>,
                       <<70, 70, 70, 70, 70, 70>> }
    [] form = "ubrace" -> { <<>>, <<48>>, <<49, 48, 102, 102>>, <<49, 49, 48, 48>>,
                            <<48, 48, 48, 48, 48>> }

Forms == {"x", "u", "U", "ubrace"}

\* digit strings of the numeric escapes tried; \u{} also takes one digit
Digits(form) ==
  { p \o dd : p \in DigitPrefixes(form), dd \in DigitPairs }
    \cup (IF form = "ubrace" THEN { <<55>>, <<97>>, <<66>> } ELSE {})

\* the escape token of a form with the given digits
Token(form, ds) ==
  CASE form = "x" -> <<92, 120>> \o ds
    [] form = "u" -> <<92, 117>> \o ds
    [] form = "U" -> <<92, 85>> \o ds
    [] form = "ubrace" -> <<92, 117, 123>> \o ds \o <<125>>

\* what follows the token in the input: nothing, the digit '1', or 'q' and
\* the same token again
After(tok) == { <<>>, <<49>>, <<113>> \o tok }

HexTokens == UNION { { Token(form, ds) : ds \in Digits(form) } : form \in Forms }

HexTexts == UNION { { tok \o a : a \in After(tok) } : tok \in HexTokens }

\* flag values a caller may pass: True, False, 1, 0, 2, None
FlagValues == {PyBool(TRUE), PyBool(FALSE), PyInt(1), PyInt(0), PyInt(2), PyNone}

BoolValues == {PyBool(TRUE), PyBool(FALSE)}

\* backslash, ', ", newline, 'a', BEL, U+00E9, U+1F600
EscapeAlphabet == {92, 39, 34, 10, 97, 7, 233, 128512}

EscapeTexts == SeqsUpTo(EscapeAlphabet, MaxEscLen)

\* ', ", and a delimiter that is neither
Delims == {<<39>>, <<34>>, <<96>>}

\* code points around the width thresholds of the numeric escapes
CodePoints == {0, 7, 65, 255, 256, 4095, 65535, 65536, 128512, 1114111}

\* names and templates of the atom lists the builder is tried on: text, a
\* field, a field followed by text, a field between doubled braces, two fields
AtomNames == {"a", "b", "c"}

AtomTemplates ==
  { <<"x">>, <<"{", "a", "}">>, <<"{", "b", "}", "y">>, <<"{", "{", "a", "}", "}">>,
    <<"{", "c", "}", "{", "a", "}">> }

\* longest atom list drawn
MaxAtoms == 2

AtomLists == UNION { [1..n -> AtomNames \X AtomTemplates] : n \in 1..MaxAtoms }

\* the caller has taken the outcome of its last call and goes on
ReturnToCaller ==
  /\ call # NoCall
  /\ call' = NoCall
  /\ ret' = Return(<<>>)
  /\ UNCHANGED <<unescape_unicode_dict, unescape_bytes_dict, escaper>>

Init ==
  /\ unescape_unicode_dict = SHORT_BACKSLASH_UNESCAPES
  /\ unescape_bytes_dict = new_unescape_bytes_dict
  /\ escaper = NoInstance
  /\ call = NoCall
  /\ ret = Return(<<>>)

Next ==
  \/ \E s \in Texts \cup NewlineTexts, newline \in Overrides : unescape_unicode(s, newline)
  \/ \E b \in Texts \cup NewlineTexts, newline \in Overrides : unescape_bytes(b, newline)
  \/ Unescape__init__
  \/ ReturnToCaller

Spec == Init /\ [][Next]_vars

\* the unescaper fed numeric escape tokens
NextHex ==
  \/ \E s \in HexTexts : unescape_unicode(s, None)
  \/ \E b \in HexTexts : unescape_bytes(b, None)
  \/ Unescape__init__
  \/ ReturnToCaller

SpecHex == Init /\ [][NextHex]_vars

\* the calls on the escaper
NextEscape ==
  \/ \E a, b, x \in FlagValues : Escape(a, b, x)
  \/ \E a, b, x \in BoolValues, s \in EscapeTexts, delim \in Delims, all, inline \in BOOLEAN :
       Escape_escape_unicode(a, b, x, s, delim, all, inline)
  \/ \E a, b, x \in BoolValues, s \in EscapeTexts, delim \in {<<39>>, <<34>>}, inline \in BOOLEAN :
       Escape_escape_unicode_twice(a, b, x, s, delim, inline)
  \/ \E a, b, x \in BoolValues, s \in EscapeTexts, delim \in {<<39>>, <<34>>},
        all, inline \in BOOLEAN :
       round_trip(a, b, x, s, delim, all, inline)
  \/ \E name \in EscapeFunctions, n \in CodePoints : Escape_escape_unicode_char(name, n)
  \/ ReturnToCaller

SpecEscape == Init /\ [][NextEscape]_vars

\* the table builds
NextGrammar ==
  \/ build_LIT_GRAMMAR
  \/ build_RE_GRAMMAR
  \/ \E atoms \in AtomLists, not_formatted \in SUBSET AtomNames :
       build_table("drawn", atoms, not_formatted)
  \/ ReturnToCaller

SpecGrammar == Init /\ [][NextGrammar]_vars

(***************************************************************************)
(* Properties of Unescape.unescape_unicode.                                *)
(***************************************************************************)
\* a backslash alone, or a backslash and one character that is neither a
\* short escape nor a newline
IsSingleUnknown(s) ==
  \/ s = <<92>>
  \/ /\ Len(s) = 2
     /\ s[1] = 92
     /\ s[2] # 10
     /\ \A p \in ShortPairs : s[2] # p[1]

IsHexDigit(c) == c \in (48..57) \cup (97..102) \cup (65..70)

ClaimDigitValue(c) ==
  IF c \in 48..57 THEN c - 48 ELSE IF c \in 97..102 THEN c - 97 + 10 ELSE c - 65 + 10

RECURSIVE Pow16(_)
Pow16(k) == IF k = 0 THEN 1 ELSE 16 * Pow16(k - 1)

RECURSIVE ClaimHexValue(_)
ClaimHexValue(ds) ==
  IF ds = <<>> THEN 0
  ELSE ClaimDigitValue(ds[1]) * Pow16(Len(ds) - 1) + ClaimHexValue(Tail(ds))

\* the display form the unknown-escape error is said to carry for a raw token
DisplayAsClaimed(raw, esc) ==
  LET last == raw[Len(raw)]
      ds == SubSeq(esc, 5, Len(esc) - 1)
  IN IF 33 <= last /\ last <= 126
     THEN esc = raw
     ELSE /\ Len(esc) >= 9
          /\ SubSeq(esc, 1, 4) = <<92, 60, 85, 43>>
          /\ esc[Len(esc)] = 62
          /\ \A k \in 1..Len(ds) : IsHexDigit(ds[k])
          /\ ClaimHexValue(ds) = last

\* C5: a backslash followed by one character that is no recognized escape, or
\* a bare trailing backslash, makes unescape_unicode fail with
\* UnknownEscapeError carrying the raw token; the display form is the raw
\* token when the offending character is in 0x21-0x7E, and otherwise
\* \<U+XXXX> with the code point written as at least four hex digits.
C5_UnknownEscapeDisplay ==
  call.op = "unescape_unicode" =>
    /\ IsSingleUnknown(call.s) =>
         ret.kind = "raise" /\ ret.exc = "UnknownEscapeError" /\ ret.raw = call.s
    /\ (ret.exc = "UnknownEscapeError" /\ Len(ret.raw) <= 2) =>
         DisplayAsClaimed(ret.raw, ret.esc)

\* s[i] is a backslash, s[j] a newline, and only fill characters lie between
IsContinuationAt(s, i, j, fill) ==
  /\ 1 <= i /\ i < j /\ j <= Len(s)
  /\ s[i] = 92
  /\ s[j] = 10
  /\ \A k \in (i + 1)..(j - 1) : s[k] \in fill

\* text the scan copies: no backslash, and no newline when newlines are replaced
IsCopied(t, newline) ==
  \A k \in 1..Len(t) : t[k] # 92 /\ ((newline.some /\ newline.v # <<10>>) => t[k] # 10)

ContinuationVanishes(fill) ==
  call.op = "unescape_unicode" =>
    \A i, j \in 1..Len(call.s) :
      LET a == SubSeq(call.s, 1, i - 1)
          b == SubSeq(call.s, j + 1, Len(call.s))
      IN (IsContinuationAt(call.s, i, j, fill) /\ IsCopied(a, call.newline)
            /\ IsCopied(b, call.newline))
           => ret = Return(a \o b)

\* C6 (as amended): a backslash followed by zero or more space characters
\* (U+0020 only) and then one newline is one escape token that decodes to the
\* empty text: backslash, spaces and newline vanish and no error is raised.
C6_LineContinuationSpaces == ContinuationVanishes({32})

\* C6 (as claimed): the same with spaces or tabs, in any mix, before the newline.
C6_LineContinuationSpacesOrTabs == ContinuationVanishes({32, 9})

\* a call whose input holds backslash, space, newline has returned the rest
C6_Witness ==
  /\ call.op = "unescape_unicode"
  /\ \E i \in 1..Len(call.s) :
       /\ IsContinuationAt(call.s, i, i + 2, {32})
       /\ call.s[i + 1] = 32
       /\ ret = Return(SubSeq(call.s, 1, i - 1) \o SubSeq(call.s, i + 3, Len(call.s)))
       /\ Len(ret.v) = Len(call.s) - 3

\* the number of digits the form is stated to take
StatedCount(form, ds) ==
  CASE form = "x" -> Len(ds) = 2
    [] form = "u" -> Len(ds) = 4
    [] form = "U" -> Len(ds) = 8
    [] form = "ubrace" -> Len(ds) \in 1..6

\* every letter among the digits is lower-case, or every letter is upper-case
SameCase(ds) ==
  \/ \A k \in 1..Len(ds) : ds[k] \notin 65..70
  \/ \A k \in 1..Len(ds) : ds[k] \notin 97..102

RECURSIVE StripZeros(_)
StripZeros(ds) == IF ds # <<>> /\ ds[1] = 48 THEN StripZeros(Tail(ds)) ELSE ds

\* the hex value is a code point: at most 0x10FFFF
IsCodePoint(ds) ==
  LET z == StripZeros(ds)
  IN Len(z) <= 5 \/ (Len(z) = 6 /\ z[1] = 49 /\ z[2] = 48)

\* what the text after the token decodes to, v being the token's code point
DecodedAfter(a, tok, v) == IF a = <<113>> \o tok THEN <<113, v>> ELSE a

HexDecodes(cases(_)) ==
  call.op = "unescape_unicode" =>
    \A form \in Forms :
      \A ds \in Digits(form) :
        \A a \in After(Token(form, ds)) :
          (/\ call.s = Token(form, ds) \o a
           /\ StatedCount(form, ds)
           /\ IsCodePoint(ds)
           /\ cases(ds))
            => ret = Return(<<ClaimHexValue(ds)>>
                              \o DecodedAfter(a, Token(form, ds), ClaimHexValue(ds)))

AnyCase(ds) == TRUE

\* C7 (as amended): for each numeric form and every choice of the stated
\* number of hex digits whose letters are all lower-case or all upper-case
\* and whose value is a code point, unescape_unicode decodes the token to the
\* code point with that hex value.
C7_HexDecodingSameCase == HexDecodes(SameCase)

\* C7 (as claimed): the same for every choice of digits, each independently
\* of either case, tokens mixing cases such as \xaB included.
C7_HexDecodingAnyCase == HexDecodes(AnyCase)

\* an all-upper-case token with a letter has been decoded to its code point
C7_Witness ==
  /\ call.op = "unescape_unicode"
  /\ \E form \in Forms :
       \E ds \in Digits(form) :
         /\ call.s = Token(form, ds)
         /\ \E k \in 1..Len(ds) : ds[k] \in 65..70
         /\ ret = Return(<<ClaimHexValue(ds)>>)

\* the text the claim gives for s from position i on: an escape token decodes
\* as on a new instance without override, a newline outside a token becomes
\* nl, anything else is copied
RECURSIVE DecodedWithNewline(_, _, _)
DecodedWithNewline(s, i, nl) ==
  IF i > Len(s) THEN Return(<<>>)
  ELSE LET n == unicode_escape(s, i)
           one == IF n > 0
                  THEN re_sub(SubSeq(s, i, i + n - 1), 1, <<>>, SHORT_BACKSLASH_UNESCAPES, FALSE).r
                  ELSE IF s[i] = 10 THEN Return(nl) ELSE Return(<<s[i]>>)
           rest == DecodedWithNewline(s, i + (IF n > 0 THEN n ELSE 1), nl)
       IN IF one.kind = "raise" THEN one
          ELSE IF rest.kind = "raise" THEN rest
          ELSE Return(one.v \o rest.v)

\* C11: when a newline override is supplied and differs from the default
\* newline, unescape_unicode replaces every literal newline that is not the
\* end of a backslash line continuation by the override, and every escape
\* token decodes as it does without an override (\n still gives LF, a line
\* continuation still gives the empty text); when the override is absent or
\* is the default newline, literal newlines are copied unchanged.
C11_NewlineOverride ==
  call.op = "unescape_unicode" =>
    ret = DecodedWithNewline(call.s, 1, IF call.newline.some THEN call.newline.v ELSE NEWLINE)

\* with the override CR LF, a literal newline followed by the escape \n has
\* come back as CR LF followed by LF
C11_Witness ==
  /\ call.op = "unescape_unicode"
  /\ call.newline = Some(<<13, 10>>)
  /\ call.s = <<10, 92, 110>>
  /\ ret = Return(<<13, 10, 10>>)

(***************************************************************************)
(* Properties of the short-escape tables.                                  *)
(***************************************************************************)
\* the pairs (escape, literal) the tables are said to hold:
\* \\ \' \" \a \b \e \f \n \r \t \v
ClaimedShortEscapes ==
  { << <<92, 92>>, <<92>> >>, << <<92, 39>>, <<39>> >>, << <<92, 34>>, <<34>> >>,
    << <<92, 97>>, <<7>> >>, << <<92, 98>>, <<8>> >>, << <<92, 101>>, <<27>> >>,
    << <<92, 102>>, <<12>> >>, << <<92, 110>>, <<10>> >>, << <<92, 114>>, <<13>> >>,
    << <<92, 116>>, <<9>> >>, << <<92, 118>>, <<11>> >> }

\* C13: the short-escape table holds exactly the 11 pairs \\, \', \", \a,
\* \b, \e, \f, \n, \r, \t, \v with their literals, and the escape-direction
\* table is its exact inverse: the unescape mapping is injective, both
\* tables have 11 entries, and unescape[escape[c]] = c and
\* escape[unescape[e]] = e for every entry.  The cache of the Unescape
\* instance, which starts as the table, keeps these entries as they are.
C13_ShortEscapeTables ==
  /\ \A e \in DOMAIN SHORT_BACKSLASH_UNESCAPES :
       /\ e \in DOMAIN unescape_unicode_dict
       /\ unescape_unicode_dict[e] = SHORT_BACKSLASH_UNESCAPES[e]
  /\ { <<e, SHORT_BACKSLASH_UNESCAPES[e]>> : e \in DOMAIN SHORT_BACKSLASH_UNESCAPES }
       = ClaimedShortEscapes
  /\ \A e1, e2 \in DOMAIN SHORT_BACKSLASH_UNESCAPES :
       SHORT_BACKSLASH_UNESCAPES[e1] = SHORT_BACKSLASH_UNESCAPES[e2] => e1 = e2
  /\ Cardinality(DOMAIN SHORT_BACKSLASH_UNESCAPES) = 11
  /\ Cardinality(DOMAIN SHORT_BACKSLASH_ESCAPES) = 11
  /\ \A c \in DOMAIN SHORT_BACKSLASH_ESCAPES :
       /\ SHORT_BACKSLASH_ESCAPES[c] \in DOMAIN SHORT_BACKSLASH_UNESCAPES
       /\ SHORT_BACKSLASH_UNESCAPES[SHORT_BACKSLASH_ESCAPES[c]] = c
  /\ \A e \in DOMAIN SHORT_BACKSLASH_UNESCAPES :
       /\ SHORT_BACKSLASH_UNESCAPES[e] \in DOMAIN SHORT_BACKSLASH_ESCAPES
       /\ SHORT_BACKSLASH_ESCAPES[SHORT_BACKSLASH_UNESCAPES[e]] = e

\* an instance built from the table has decoded the short escape \n to LF,
\* and the escape-direction table maps LF back to \n
C13_Witness ==
  /\ call.op = "unescape_unicode"
  /\ call.s = <<92, 110>>
  /\ ret = Return(SHORT_BACKSLASH_UNESCAPES[call.s])
  /\ ret.v = <<10>>
  /\ SHORT_BACKSLASH_ESCAPES[ret.v] = call.s

(***************************************************************************)
(* Properties of the grammar table build.                                  *)
(***************************************************************************)
\* the last atom before atom n that declares name, 0 when there is none
LastBefore(atoms, n, name) ==
  LET js == { j \in 1..(n - 1) : atoms[j][1] = name }
  IN IF js = {} THEN 0 ELSE CHOOSE j \in js : \A i \in js : i <= j

\* what the claim stores for atom n: the template itself for a pass-through
\* atom, else the template with each placeholder replaced by what is stored
\* for the nearest earlier atom of that name (a doubled brace being the way a
\* template writes one brace); ok is false when a placeholder names no
\* earlier atom
RECURSIVE ClaimStored(_, _, _)
RECURSIVE ClaimSubstituted(_, _, _, _)
ClaimStored(atoms, pass_through, n) ==
  IF atoms[n][1] \in pass_through THEN [ok |-> TRUE, v |-> atoms[n][2]]
  ELSE ClaimSubstituted(atoms, pass_through, n, 1)

ClaimSubstituted(atoms, pass_through, n, i) ==
  LET t == atoms[n][2]
  IN IF i > Len(t) THEN [ok |-> TRUE, v |-> <<>>]
     ELSE LET doubled == i + 1 <= Len(t) /\ t[i] \in {"{", "}"} /\ t[i + 1] = t[i]
              placeholder == ~ doubled /\ t[i] = "{"
              j == LastBefore(atoms, n, t[i + 1])
              head == IF doubled THEN [ok |-> TRUE, v |-> <<t[i]>>]
                      ELSE IF ~ placeholder THEN [ok |-> TRUE, v |-> <<t[i]>>]
                      ELSE IF j = 0 THEN [ok |-> FALSE, v |-> <<>>]
                      ELSE ClaimStored(atoms, pass_through, j)
              rest == ClaimSubstituted(atoms, pass_through, n,
                                       i + (IF doubled THEN 2 ELSE IF placeholder THEN 3 ELSE 1))
          IN [ok |-> head.ok /\ rest.ok, v |-> head.v \o rest.v]

\* the text holds '{name}' for the name of one of the atoms
HasPlaceholder(v, atoms) ==
  \E i \in 1..(Len(v) - 2) :
    /\ v[i] = "{"
    /\ v[i + 2] = "}"
    /\ \E n \in 1..Len(atoms) : atoms[n][1] = v[i + 1]

\* C14: the table build is a single forward pass: taking the atoms in the
\* order declared, a pass-through atom is stored verbatim and any other atom
\* is stored with every {name} placeholder replaced by the value already
\* resolved for an earlier atom; the build fails if a placeholder names an
\* atom not yet resolved.  For the literal and the regex atom lists as
\* declared every placeholder names an earlier atom, so both builds complete
\* and no stored entry of an atom that is not pass-through holds an
\* unresolved placeholder.
C14_ForwardPass ==
  call.op = "build" =>
    LET atoms == call.atoms
        pass_through == call.not_formatted
        last(name) == LastBefore(atoms, Len(atoms) + 1, name)
    IN /\ IF \E n \in 1..Len(atoms) : ~ ClaimStored(atoms, pass_through, n).ok
          THEN ret.kind = "raise"
          ELSE /\ ret.kind = "return"
               /\ DOMAIN ret.v = { atoms[n][1] : n \in 1..Len(atoms) }
               /\ \A name \in DOMAIN ret.v :
                    ret.v[name] = ClaimStored(atoms, pass_through, last(name)).v
       /\ call.table \in {"LIT_GRAMMAR", "RE_GRAMMAR"} =>
            /\ ret.kind = "return"
            /\ \A name \in DOMAIN ret.v \ pass_through : ~ HasPlaceholder(ret.v[name], atoms)

\* the regex table has been built: '{' is stored as re.escape gave it, the
\* whitespace class as written, and an atom naming two earlier atoms holds
\* their values
C14_Witness ==
  /\ call.op = "build"
  /\ call.table = "RE_GRAMMAR"
  /\ ret.kind = "return"
  /\ ret.v["start_inline_dict"] = <<"\\", "{">>
  /\ ret.v["indent"] = <<"[", "\\", "\t", "\\", " ", "]">>
  /\ ret.v["opt_sign_indent"] = <<"(?:">> \o ret.v["sign"] \o ret.v["indent"] \o <<"*)?">>
  /\ ret.v["x_escape"] =
       <<"\\\\x(?:", "[0-9a-f]", "{", "2", "}", "|", "[0-9A-F]", "{", "2", "}", ")">>

(***************************************************************************)
(* Properties of Unescape.unescape_bytes.                                  *)
(***************************************************************************)
\* the byte string holds no \uHHHH, \UHHHHHHHH or \u{H..H} escape
NoUEscape(b) ==
  \A i \in 1..Len(b) : u_escape(b, i) = 0 /\ U_escape(b, i) = 0 /\ ubrace_escape(b, i) = 0

\* unescape_unicode of text s with the given override on a new instance
OnNewInstance(s, newline) ==
  LET replace == newline.some /\ newline.v # NEWLINE
      d == IF replace THEN (NEWLINE :> newline.v) @@ SHORT_BACKSLASH_UNESCAPES
           ELSE SHORT_BACKSLASH_UNESCAPES
  IN re_sub(s, 1, <<>>, d, replace).r

\* C12: unescape_bytes is the byte-level equivalent of unescape_unicode: for
\* every byte string b without \u or \U numeric escapes, unescape_bytes(b)
\* returns the Latin-1 encoding of unescape_unicode(Latin-1 decoding of b),
\* and fails with UnknownEscapeError exactly when that call fails; so the 11
\* short escapes give their byte, \xHH gives the byte of that value, and
\* backslash, spaces, newline gives the empty byte string.
C12_BytesEquivalence ==
  (call.op = "unescape_bytes" /\ NoUEscape(call.s)) =>
    LET u == OnNewInstance(decode_latin1(Bytes(call.s)).v, call.newline)
    IN IF u.kind = "return"
       THEN ret.kind = "return" /\ Return(Bytes(ret.v)) = encode(u.v, "latin1")
       ELSE ret.kind = "raise" /\ ret.exc = "UnknownEscapeError"

(***************************************************************************)
(* Properties of the caches of one Unescape instance.                      *)
(***************************************************************************)
\* unescape_bytes of byte string b with the given override on a new instance
OnNewInstanceBytes(b, newline) ==
  LET default_newline == encode(NEWLINE, "latin1").v
      replace == newline.some /\ ~ TypedEq(Bytes(newline.v), default_newline)
      d == IF replace THEN (default_newline :> Bytes(newline.v)) @@ new_unescape_bytes_dict
           ELSE new_unescape_bytes_dict
  IN re_sub_bytes(b, 1, <<>>, d, replace).r

\* every key the caches hold beyond those of a new instance is the newline
\* key of an override or a token the factory decodes, stored with the value
\* the factory gives it
OnlyDecodedTokensCached ==
  /\ \A k \in Added(unescape_unicode_dict) \ {NEWLINE} :
       LET r == unescape_unicode_char(k)
       IN r.kind = "return" /\ unescape_unicode_dict[k] = r.v
  /\ \A k \in AddedBytes(unescape_bytes_dict) \ {encode(NEWLINE, "latin1").v} :
       LET r == unescape_byte(k)
       IN r.kind = "return" /\ unescape_bytes_dict[k] = r.v

\* C15: cache transparency: after any sequence of calls on one instance
\* (calls that fail with UnknownEscapeError and calls with different newline
\* overrides, which write the override into the cache, included) every later
\* call returns the same result or fails the same way as the same call on a
\* newly constructed instance, and a failed lookup leaves no entry in the
\* cache.
C15_CacheTransparency ==
  /\ call.op = "unescape_unicode" =>
       /\ ret = OnNewInstance(call.s, call.newline)
       /\ (ret.kind = "raise" /\ ret.exc = "UnknownEscapeError") =>
            ret.raw \notin DOMAIN unescape_unicode_dict
  /\ call.op = "unescape_bytes" =>
       /\ ret = OnNewInstanceBytes(call.s, call.newline)
       /\ (ret.kind = "raise" /\ ret.exc = "UnknownEscapeError") =>
            Bytes(ret.raw) \notin DOMAIN unescape_bytes_dict
  /\ OnlyDecodedTokensCached

\* a call without an override on an instance whose cache holds the CR LF of
\* an earlier call: the newline of the text and the one after the
\* continuation come out as they are
C15_Witness ==
  /\ call.op = "unescape_unicode"
  /\ call.newline = None
  /\ call.s = <<10, 92, 10>>
  /\ NEWLINE \in DOMAIN unescape_unicode_dict
  /\ unescape_unicode_dict[NEWLINE] = <<13, 10>>
  /\ <<92, 10>> \in DOMAIN unescape_unicode_dict
  /\ ret = Return(<<10>>)

(***************************************************************************)
(* Properties of numeric escapes above the code point range.               *)
(***************************************************************************)
\* C16: for every token \UHHHHHHHH or \u{H..H} that matches the escape
\* pattern but whose hex value is greater than 0x10FFFF (up to 0xFFFFFFFF
\* for the 8-digit form), unescape_unicode fails with UnknownEscapeError
\* carrying that token; it never returns decoded text for such a token and
\* never fails with any other kind of error.
C16_OutOfRangeUnknownEscape ==
  call.op = "unescape_unicode" =>
    \A form \in {"U", "ubrace"} :
      \A ds \in Digits(form) :
        \A a \in After(Token(form, ds)) :
          (/\ call.s = Token(form, ds) \o a
           /\ StatedCount(form, ds)
           /\ SameCase(ds)
           /\ ~ IsCodePoint(ds))
            => /\ ret.kind = "raise"
               /\ ret.exc = "UnknownEscapeError"
               /\ ret.raw = Token(form, ds)

(***************************************************************************)
(* Properties of Escape.                                                   *)
(***************************************************************************)
HasShortEscape(c) == \E p \in ShortPairs : p[2] = c

ShortEscapeAsClaimed(c) == <<92, (CHOOSE p \in ShortPairs : p[2] = c)[1]>>

\* the numeric escape the width-selection table gives for code point c
NumericAsClaimed(x_escapes, brace_escapes, c) ==
  IF x_escapes /\ c < 256 THEN <<92, 120>> \o format_x(c, 2)
  ELSE IF brace_escapes THEN <<92, 117, 123>> \o HexLower(c) \o <<125>>
  ELSE IF c < 65536 THEN <<92, 117>> \o format_x(c, 4)
  ELSE <<92, 85>> \o format_x(c, 8)

IsTrue(flag) == flag = PyBool(TRUE)

\* the escape a replaced code point is said to get
ReplacementAsClaimed(c) ==
  IF HasShortEscape(c) THEN ShortEscapeAsClaimed(c)
  ELSE NumericAsClaimed(IsTrue(call.x_escapes), IsTrue(call.brace_escapes), c)

\* the code points escape_unicode is said to replace when escape_all is false
ReplacedAsClaimed(c) ==
  \/ c = 92
  \/ <<c>> = call.delim
  \/ call.inline /\ c = 10
  \/ IF IsTrue(call.only_ascii) THEN NOT_VALID_LITERAL_ASCII(c) ELSE NOT_VALID_LITERAL(c)

RECURSIVE EscapedAsClaimed(_)
EscapedAsClaimed(s) ==
  IF s = <<>> THEN <<>>
  ELSE (IF call.all \/ ReplacedAsClaimed(s[1]) THEN ReplacementAsClaimed(s[1]) ELSE <<s[1]>>)
         \o EscapedAsClaimed(Tail(s))

\* C1: for every Escaper configuration, quote delimiter, escape_all, inline
\* and text without unpaired surrogates,
\* unescape_unicode(escape_unicode(text, delim, all, inline)) with no newline
\* override returns exactly text.
C1_RoundTrip == call.op = "round_trip" => ret = Return(call.s)

\* C2: a code point without a short escape gets the numeric escape chosen by
\* (x_escapes, brace_escapes): \xHH below 256 when x_escapes, else \u{H..H}
\* when brace_escapes, else \uHHHH below 65536 and \UHHHHHHHH from there on;
\* lower-case digits, fixed widths zero-padded, the brace form unpadded.
C2_WidthSelection ==
  (/\ call.op = "escape_unicode"
   /\ call.delim \in {<<39>>, <<34>>}
   /\ call.all
   /\ Len(call.s) = 1
   /\ ~ HasShortEscape(call.s[1]))
    => ret = Return(NumericAsClaimed(IsTrue(call.x_escapes), IsTrue(call.brace_escapes),
                                     call.s[1]))

\* C3: whenever escape_unicode replaces a code point that has a short escape,
\* the replacement is that two-character short escape, never a numeric one;
\* an escaped newline is always \n.
C3_ShortEscapePriority ==
  (/\ call.op = "escape_unicode"
   /\ call.delim \in {<<39>>, <<34>>}
   /\ call.all
   /\ Len(call.s) = 1
   /\ HasShortEscape(call.s[1]))
    => ret = Return(ShortEscapeAsClaimed(call.s[1]))

\* C4: with escape_all false, escape_unicode replaces exactly the backslash,
\* the quote equal to the delimiter, the newline iff inline, and the code
\* points of the not-valid-literal range; every other code point is copied
\* unchanged in place.
C4_MatchSet ==
  (/\ call.op = "escape_unicode"
   /\ call.delim \in {<<39>>, <<34>>}
   /\ ~ call.all)
    => ret = Return(EscapedAsClaimed(call.s))

IsStrictBool(flag) == flag.type = "bool"

\* C8: Escaper construction fails with a configuration error whenever any of
\* only_ascii, brace_escapes, x_escapes is not strictly a boolean, the
\* integers 1 and 0 included.
C8_StrictBooleanFlags ==
  (/\ call.op = "Escape"
   /\ \E flag \in {call.only_ascii, call.brace_escapes, call.x_escapes} : ~ IsStrictBool(flag))
    => (ret.kind = "raise" /\ ret.exc = "TypeError")

\* C9: Escaper construction with three boolean flags completes without error,
\* and the byte cache then has an entry for each of the 256 byte values: the
\* short escape for a byte that has one, the lower-case \xHH form otherwise.
C9_ConstructionCompletes ==
  (/\ call.op = "Escape"
   /\ \A flag \in {call.only_ascii, call.brace_escapes, call.x_escapes} : IsStrictBool(flag))
    => /\ ret.kind = "return"
       /\ escaper.exists
       /\ DOMAIN escaper.escape_bytes_dict = { <<n>> : n \in 0..255 }
       /\ \A n \in 0..255 :
            escaper.escape_bytes_dict[<<n>>] =
              IF HasShortEscape(n) THEN ShortEscapeAsClaimed(n)
              ELSE <<92, 120>> \o format_x(n, 2)

\* C10: applying escape_unicode with escape_all false a second time, with the
\* same configuration and arguments, to the output of the first application
\* returns that output unchanged.
C10_SecondPassStable ==
  call.op = "escape_unicode_twice" => (ret.kind = "return" /\ ret.v[2] = ret.v[1])

====
